---- MODULE Spec2Model ----
(***************************************************************************)
(* Model of the ChatoCat real-time relay (server.js, the Socket.IO         *)
(* connection handler) as a state machine.                                 *)
(*                                                                         *)
(* A JavaScript object is a TLA+ record; a property that is absent (or     *)
(* undefined) is a field that is not in the record's DOMAIN.  A room name  *)
(* is a string; the room keyed by the JavaScript value undefined is the    *)
(* room UNDEF.  The adapter's two maps (room -> session ids, session id -> *)
(* rooms) are the variables rooms and sids.                                *)
(*                                                                         *)
(* The browser client (App.jsx: SocketProvider, ChatsPage, CallModal) is   *)
(* modelled in the second half: ui is the React state of each tab, inbox   *)
(* the events in flight from the server to a tab.  An event a tab emits    *)
(* is handled by the server in the step that emits it: a tab acts on its   *)
(* own state and the head of its inbox only, so the time an event spends   *)
(* on its way to the server is the same as the tab acting later.           *)
(***************************************************************************)
EXTENDS Naturals, Integers, Sequences, FiniteSets, TLC

VARIABLES
    status,     \* session id -> "new" (not yet connected) | "live" | "gone"
    rooms,      \* adapter.rooms: room name -> set of session ids
    sids,       \* adapter.sids (socket.rooms): session id -> set of room names
    bound,      \* session id -> the identities the session passed to an accepted "setup"
    last,       \* the inbound event handled by the last step
    out,        \* session id -> sequence of events written to it by the last step
    crashed,    \* TRUE once a handler threw (uncaught exception ends the process)
    ui,         \* session id -> state of the browser tab that owns the session
    inbox,      \* session id -> events the server has written, not yet handled by the tab
    calls,      \* number of calls started so far
    did,        \* the step taken last
    chatDb,     \* the Chat collection: the documents in the order created
    msgDb,      \* the Message collection: the documents in the order created
    reqs        \* the REST requests received so far, each with the point it has reached

server == <<status, rooms, sids, bound, last, out, crashed>>
client == <<ui, inbox, calls, did>>
store == <<chatDb, msgDb, reqs>>
vars == <<status, rooms, sids, bound, last, out, crashed, ui, inbox, calls, did,
          chatDb, msgDb, reqs>>

----------------------------------------------------------------------------
(* Bounds and input universes *)

\* longest chat.users list a "new message" envelope carries
MaxUsers == 2
\* most rooms (besides its own id) one session joins
MaxRooms == 2

SessionIds == <<"s1", "s2", "s3">>
Sessions   == { SessionIds[i] : i \in DOMAIN SessionIds }
Identities == {"u1", "u2"}
Chats      == {"c1"}
UNDEF      == "undefined"
\* users that log in from a browser, and the chats they have with each other
Users      == {"u1", "u2", "u3"}
Dialogs    == {"c1", "c2"}
\* the _id of the documents of the Chat collection, in the order created
ChatIds    == <<"c1", "c2", "c3", "c4">>
RoomNames  == Sessions \cup Identities \cup Users \cup Chats \cup Dialogs \cup {UNDEF}
                  \cup { ChatIds[i] : i \in DOMAIN ChatIds }

EmptyRec == [f \in {} |-> ""]

Has(d, f) == f \in DOMAIN d
Get(d, f) == IF f \in DOMAIN d THEN d[f] ELSE UNDEF

\* variant: the received object is forwarded whole
WireAll(d, fields) == d

\* JSON encoding of an object literal built by the server: a property whose
\* value is undefined is not transmitted.
Wire(d, fields) == [f \in {g \in fields : Has(d, g)} |-> d[f]]

----------------------------------------------------------------------------
(* Adapter: rooms and deliveries *)

Members(room) == IF room \in DOMAIN rooms THEN rooms[room] ELSE {}

\* sessions an emit to the room is written to: the room's members whose
\* transport is open at the time of the emit
Deliverable(room, closed) == Members(room) \ closed

NoOut == [s \in Sessions |-> <<>>]

\* variant: the packet goes to a single member of the room
EmitToOne(o, room, closed, ev, data) ==
    [s \in Sessions |->
        IF Deliverable(room, closed) # {} /\ s = CHOOSE t \in Deliverable(room, closed) : TRUE
        THEN Append(o[s], [ev |-> ev, data |-> data])
        ELSE o[s]]

\* variant: a room without members addresses every connected session
EmitToAll(o, room, closed, ev, data) ==
    [s \in Sessions |->
        IF \/ s \in Deliverable(room, closed)
           \/ Members(room) = {} /\ status[s] = "live" /\ s \notin closed
        THEN Append(o[s], [ev |-> ev, data |-> data])
        ELSE o[s]]

\* variant: end-call is relayed only right after another signaling event
EmitToInCall(o, room, closed, ev, data) ==
    [s \in Sessions |->
        IF /\ s \in Deliverable(room, closed)
           /\ (ev = "end-call" => last.ev \in {"call-user", "call-accepted", "prepare-call",
                                               "ready-for-offer", "webrtc-offer", "webrtc-answer",
                                               "webrtc-ice-candidate"})
        THEN Append(o[s], [ev |-> ev, data |-> data])
        ELSE o[s]]

\* io.to(room).emit(ev, data): one packet to each member of the room
EmitTo(o, room, closed, ev, data) ==
    [s \in Sessions |->
        IF s \in Deliverable(room, closed)
        THEN Append(o[s], [ev |-> ev, data |-> data])
        ELSE o[s]]

\* variant: the room's member set is not updated
JoinRoomsNone(s, room) == rooms

\* socket.join(room)
JoinRooms(s, room) == [rooms EXCEPT ![room] = @ \cup {s}]
\* variant: joining a room the session is already in leaves it
JoinSidsToggle(s, room) ==
    [sids EXCEPT ![s] = IF room \in @ THEN @ \ {room} ELSE @ \cup {room}]

JoinSids(s, room)  == [sids EXCEPT ![s] = @ \cup {room}]

\* an inbound event; s is the session the handler acts on, or ANY when the
\* handler does not use its socket
ANY == "any"
Event(s, ev, has, data) == [s |-> s, ev |-> ev, has |-> has, data |-> data]

Live(s) == status[s] = "live" /\ ~crashed

\* some connected socket has the handler registered
AnyLive == \E s \in Sessions : Live(s)

\* a handler threw: the uncaught exception terminates the server process
Crash(ev, has, data) ==
    /\ crashed' = TRUE
    /\ last' = Event(ANY, ev, has, data)
    /\ out' = NoOut
    /\ UNCHANGED <<status, rooms, sids, bound>>
    /\ UNCHANGED <<client, store>>

----------------------------------------------------------------------------
NONE == "none"

\* React state of a tab logged in as u, no chat open and no call shown;
\* setup: the "connect" listener has run.
\* ChatsPage: chat (activeChat), modal (showCallModal), caller, callee,
\* accepted (callAccepted).  CallModal: incoming, inCall, media
\* (hasLocalStream), offer (the peer connection holds a local offer), ice
\* (the peer connection has candidates to send), mpeer (the peer the
\* signaling effect captured when the modal mounted), timer (callee captured
\* by a pending startCall), once (callee captured by the armed
\* ready-for-offer listener), prep (number of prepare-call listeners on the
\* socket).  consent and hist record history: acceptCall ran for the call
\* shown, and the protocol events seen since the modal mounted.
Tab(u) ==
    [user |-> u, setup |-> FALSE, chat |-> NONE, modal |-> FALSE, caller |-> NONE, callee |-> NONE,
     accepted |-> FALSE, incoming |-> FALSE, inCall |-> FALSE, media |-> FALSE,
     offer |-> FALSE, ice |-> FALSE, mpeer |-> NONE, timer |-> NONE, once |-> NONE,
     prep |-> 0, consent |-> FALSE, hist |-> {}]

\* a tab before its socket exists
NoTab == Tab(NONE)

\* a step: the session that took it, what it did, the event concerned and
\* the user whose tab emitted that event
Step(s, act, ev, origin) == [s |-> s, act |-> act, ev |-> ev, origin |-> origin]

ClientInit ==
    /\ ui = [s \in Sessions |-> NoTab]
    /\ inbox = [s \in Sessions |-> <<>>]
    /\ calls = 0
    /\ did = Step(NONE, "init", NONE, NONE)

\* both collections are empty and no request has arrived
StoreInit ==
    /\ chatDb = <<>>
    /\ msgDb = <<>>
    /\ reqs = <<>>

Init ==
    /\ status = [s \in Sessions |-> "new"]
    /\ rooms = [r \in RoomNames |-> {}]
    /\ sids = [s \in Sessions |-> {}]
    /\ bound = [s \in Sessions |-> {}]
    /\ last = Event("none", "init", FALSE, EmptyRec)
    /\ out = NoOut
    /\ crashed = FALSE
    /\ ClientInit
    /\ StoreInit

\* session ids are assigned by the transport, each one fresh, in this order
Fresh(s) ==
    \E i \in DOMAIN SessionIds :
        /\ SessionIds[i] = s
        /\ status[s] = "new"
        /\ \A j \in 1..(i - 1) : status[SessionIds[j]] # "new"

\* io.on("connection"): the session is admitted and sits in the room of its
\* own id
OnConnection(s) ==
    /\ ~crashed
    /\ Fresh(s)
    /\ status' = [status EXCEPT ![s] = "live"]
    /\ rooms' = JoinRooms(s, s)
    /\ sids' = JoinSids(s, s)
    /\ last' = Event(s, "connection", FALSE, EmptyRec)
    /\ out' = NoOut
    /\ UNCHANGED <<bound, crashed>>

Connection(s) == OnConnection(s) /\ UNCHANGED <<client, store>>

----------------------------------------------------------------------------
(* setup *)

SetupData ==
    { [_id |-> i, name |-> "n"] : i \in Identities \cup {""} } \cup { [name |-> "n"] }

\* variant: only a missing _id is rejected
SetupRejectsMissing(has, userData) ==
    \/ ~has
    \/ ~Has(userData, "_id")

\* !userData?._id
SetupRejects(has, userData) ==
    \/ ~has
    \/ ~Has(userData, "_id")
    \/ userData._id = ""

CanJoin(s, room) == room \in sids[s] \/ Cardinality(sids[s] \ {s}) < MaxRooms

\* variant: the reply goes to the room of the identity
SetupReplyRoom(s, id) ==
    [t \in Sessions |->
        IF t \in Members(id) \cup {s} THEN <<[ev |-> "connected", data |-> EmptyRec]>> ELSE <<>>]

\* socket.emit("connected"): to the sending socket
SetupReply(s, id) == [NoOut EXCEPT ![s] = <<[ev |-> "connected", data |-> EmptyRec]>>]

\* socket.on("setup")
OnSetup(s, has, userData) ==
    /\ Live(s)
    /\ last' = Event(s, "setup", has, userData)
    /\ IF SetupRejects(has, userData)
       THEN /\ out' = NoOut
            /\ UNCHANGED <<status, rooms, sids, bound, crashed>>
       ELSE /\ CanJoin(s, userData._id)
            /\ rooms' = JoinRooms(s, userData._id)
            /\ sids' = JoinSids(s, userData._id)
            /\ bound' = [bound EXCEPT ![s] = @ \cup {userData._id}]
            /\ out' = SetupReply(s, userData._id)
            /\ UNCHANGED <<status, crashed>>

Setup(s, has, userData) == OnSetup(s, has, userData) /\ UNCHANGED <<client, store>>

----------------------------------------------------------------------------
(* join chat *)

\* room ids sent with "join chat": a chat id, or a string equal to a user id
JoinArgs == Chats \cup {"u2"}
SignalJoinArgs == {"u2"}
PresenceJoinArgs == Chats \cup {"s1"}

\* socket.on("join chat")
OnJoinChat(s, has, roomId) ==
    /\ Live(s)
    /\ LET room == IF has THEN roomId ELSE UNDEF
       IN /\ CanJoin(s, room)
          /\ rooms' = JoinRooms(s, room)
          /\ sids' = JoinSids(s, room)
          /\ last' = Event(s, "join chat", has, IF has THEN [roomId |-> roomId] ELSE EmptyRec)
    /\ out' = NoOut
    /\ UNCHANGED <<status, bound, crashed>>

JoinChat(s, has, roomId) == OnJoinChat(s, has, roomId) /\ UNCHANGED <<client, store>>

----------------------------------------------------------------------------
(* new message *)

UserEntries == { [_id |-> i] : i \in Identities } \cup { [name |-> "n"] }

UserLists == UNION { [1..n -> UserEntries] : n \in 0..MaxUsers }

Senders == { [_id |-> "u1"] }

Messages ==
    { [chat |-> [_id |-> "c1", users |-> u], sender |-> a, content |-> "hi"] :
        u \in UserLists, a \in Senders }
    \cup { [chat |-> [_id |-> "c1", users |-> u], content |-> "hi"] : u \in {<<>>, <<[_id |-> "u2"]>>} }
    \cup { [chat |-> [_id |-> "c1"], sender |-> [_id |-> "u1"], content |-> "hi"],
           [sender |-> [_id |-> "u1"], content |-> "hi"] }

\* chat?.users is falsy
NoUsers(message) ==
    \/ ~Has(message, "chat")
    \/ ~Has(message.chat, "users")

\* message.chat or message.sender._id throws a TypeError
NewMessageThrows(has, message) ==
    \/ ~has
    \/ /\ ~NoUsers(message)
       /\ message.chat.users # <<>>
       /\ ~Has(message, "sender")

\* variant: every entry other than the sender's emits to the chat's room
RECURSIVE FanOutChat(_, _, _)
FanOutChat(o, message, i) ==
    LET users == message.chat.users
    IN IF i > Len(users) THEN o
       ELSE IF Get(users[i], "_id") = Get(message.sender, "_id")
            THEN FanOutChat(o, message, i + 1)
            ELSE FanOutChat(EmitTo(o, Get(message.chat, "_id"), {}, "message received", message),
                            message, i + 1)

\* variant: the sender's entry is not skipped
RECURSIVE FanOutAll(_, _, _)
FanOutAll(o, message, i) ==
    LET users == message.chat.users
    IN IF i > Len(users) THEN o
       ELSE FanOutAll(EmitTo(o, Get(users[i], "_id"), {}, "message received", message),
                      message, i + 1)

\* chat.users.forEach(...), from entry i on
RECURSIVE FanOut(_, _, _)
FanOut(o, message, i) ==
    LET users == message.chat.users
    IN IF i > Len(users) THEN o
       ELSE IF Get(users[i], "_id") = Get(message.sender, "_id")
            THEN FanOut(o, message, i + 1)
            ELSE FanOut(EmitTo(o, Get(users[i], "_id"), {}, "message received", message),
                        message, i + 1)

\* socket.on("new message"), when it does not throw
OnNewMessage(has, message) ==
    /\ last' = Event(ANY, "new message", has, message)
    /\ out' = IF NoUsers(message) THEN NoOut
              ELSE IF message.chat.users = <<>> THEN NoOut
              ELSE FanOut(NoOut, message, 1)
    /\ UNCHANGED <<status, rooms, sids, bound, crashed>>

NewMessage(has, message) ==
    /\ AnyLive
    /\ IF NewMessageThrows(has, message)
       THEN Crash("new message", has, message)
       ELSE /\ OnNewMessage(has, message)
            /\ UNCHANGED <<client, store>>

----------------------------------------------------------------------------
(* call signaling *)

SignalNames ==
    {"call-user", "call-accepted", "prepare-call", "ready-for-offer",
     "webrtc-offer", "webrtc-answer", "webrtc-ice-candidate", "end-call"}

\* variant: every event is emitted under the name it arrived with
OutNameSame(ev) == ev

\* name of the event the relay emits for an inbound signaling event
OutName(ev) == IF ev = "call-user" THEN "incoming-call" ELSE ev

\* the field that carries the opaque body of a webrtc-* event
BodyField(ev) ==
    IF ev = "webrtc-offer" THEN "offer"
    ELSE IF ev = "webrtc-answer" THEN "answer"
    ELSE "candidate"

\* variant: every relayed payload is rebuilt from the from field
OutDataFrom(ev, data) ==
    IF ev = "call-user" THEN Wire(data, {"from", "name", "callType"})
    ELSE Wire(data, {"from"})

\* the payload the relay emits for an inbound signaling event
OutData(ev, data) ==
    IF ev = "call-user" THEN Wire(data, {"from", "name", "callType"})
    ELSE IF ev \in {"call-accepted", "prepare-call", "ready-for-offer"} THEN Wire(data, {"from"})
    ELSE data

Addressing ==
    { [to |-> "u2", from |-> "u1"], [to |-> "u2"], [from |-> "u1"], [to |-> "u1", from |-> "u2"] }

Extend(d, f, v) == [g \in DOMAIN d \cup {f} |-> IF g = f THEN v ELSE d[g]]

SignalData(ev) ==
    IF ev = "call-user"
    THEN { Extend(Extend(d, "name", "n"), "callType", "video") : d \in Addressing }
    ELSE IF ev \in {"webrtc-offer", "webrtc-answer", "webrtc-ice-candidate"}
    THEN { Extend(d, BodyField(ev), "X") : d \in Addressing }
         \cup { Extend([to |-> "u2", from |-> "u1"], BodyField(ev), "Y") }
    ELSE Addressing

\* socket.on(ev, (data) => io.to(data.to).emit(OutName(ev), ...)), the
\* event carrying a payload
SignalOut(o, ev, data) == EmitTo(o, Get(data, "to"), {}, OutName(ev), OutData(ev, data))

\* variant: end-call empties the room it names
OnSignalLeave(ev, data) ==
    /\ last' = Event(ANY, ev, TRUE, data)
    /\ out' = SignalOut(NoOut, ev, data)
    /\ rooms' = IF ev = "end-call" /\ Get(data, "to") \in RoomNames
                THEN [rooms EXCEPT ![Get(data, "to")] = {}]
                ELSE rooms
    /\ UNCHANGED <<status, sids, bound, crashed>>

\* a signaling handler that found its payload: one emit, nothing else
OnSignal(ev, data) ==
    /\ last' = Event(ANY, ev, TRUE, data)
    /\ out' = SignalOut(NoOut, ev, data)
    /\ UNCHANGED <<status, rooms, sids, bound, crashed>>

Relay(ev, has, data) ==
    /\ AnyLive
    /\ IF ~has
       THEN Crash(ev, has, data)
       ELSE OnSignal(ev, data) /\ UNCHANGED <<client, store>>

CallUser(has, data) == Relay("call-user", has, data)
CallAccepted(has, data) == Relay("call-accepted", has, data)
PrepareCall(has, data) == Relay("prepare-call", has, data)
ReadyForOffer(has, data) == Relay("ready-for-offer", has, data)
WebrtcOffer(has, data) == Relay("webrtc-offer", has, data)
WebrtcAnswer(has, data) == Relay("webrtc-answer", has, data)
WebrtcIceCandidate(has, data) == Relay("webrtc-ice-candidate", has, data)
EndCall(has, data) == Relay("end-call", has, data)

----------------------------------------------------------------------------
(* transport loss: "disconnecting", then the session leaves all its rooms,
   then "disconnect" *)

\* variant: the room of the session's own id is notified too
RECURSIVE NotifyOwn(_, _, _)
NotifyOwn(o, s, rs) ==
    IF rs = {} THEN o
    ELSE LET room == CHOOSE r \in rs : TRUE
         IN NotifyOwn(EmitTo(o, room, {s}, "peer-disconnected", [socketId |-> s]),
                      s, rs \ {room})

\* variant: the rooms of the lost session are told that the call ended
RECURSIVE NotifyEndCall(_, _, _)
NotifyEndCall(o, s, rs) ==
    IF rs = {} THEN o
    ELSE LET room == CHOOSE r \in rs : TRUE
         IN NotifyEndCall(IF room # s
                          THEN EmitTo(EmitTo(o, room, {s}, "peer-disconnected", [socketId |-> s]),
                                      room, {s}, "end-call", EmptyRec)
                          ELSE o,
                          s, rs \ {room})

\* rooms.forEach(...): one emit per room of the session other than its own id
RECURSIVE Notify(_, _, _)
Notify(o, s, rs) ==
    IF rs = {} THEN o
    ELSE LET room == CHOOSE r \in rs : TRUE
         IN Notify(IF room # s
                   THEN EmitTo(o, room, {s}, "peer-disconnected", [socketId |-> s])
                   ELSE o,
                   s, rs \ {room})

\* variant: the rooms are read after the session has left them
RoomsSnapshotCleared(s) == {}

\* const rooms = Array.from(socket.rooms), taken in "disconnecting"
RoomsSnapshot(s) == sids[s]

\* variant: the lost session stays in the member sets
LeaveAllNone(s) == rooms

\* the session leaves every room between "disconnecting" and "disconnect"
LeaveAll(s) == [r \in RoomNames |-> rooms[r] \ {s}]

OnDisconnecting(s) ==
    /\ Live(s)
    /\ out' = Notify(NoOut, s, RoomsSnapshot(s))
    /\ rooms' = LeaveAll(s)
    /\ sids' = [sids EXCEPT ![s] = {}]
    /\ bound' = [bound EXCEPT ![s] = {}]
    /\ status' = [status EXCEPT ![s] = "gone"]
    /\ last' = Event(s, "disconnect", FALSE, [rooms |-> RoomsSnapshot(s)])
    /\ UNCHANGED crashed

Disconnecting(s) == OnDisconnecting(s) /\ UNCHANGED <<client, store>>

----------------------------------------------------------------------------
\* connection, setup, join chat (room ids drawn from args) and transport loss
RegistryNext(args) ==
    \/ \E s \in Sessions : Connection(s)
    \/ \E s \in Sessions : \E d \in SetupData : Setup(s, TRUE, d)
    \/ \E s \in Sessions : Setup(s, FALSE, EmptyRec)
    \/ \E s \in Sessions : \E r \in args : JoinChat(s, TRUE, r)
    \/ \E s \in Sessions : JoinChat(s, FALSE, UNDEF)
    \/ \E s \in Sessions : Disconnecting(s)

SignalNext ==
    \/ \E d \in SignalData("call-user") : CallUser(TRUE, d)
    \/ \E d \in SignalData("call-accepted") : CallAccepted(TRUE, d)
    \/ \E d \in SignalData("prepare-call") : PrepareCall(TRUE, d)
    \/ \E d \in SignalData("ready-for-offer") : ReadyForOffer(TRUE, d)
    \/ \E d \in SignalData("webrtc-offer") : WebrtcOffer(TRUE, d)
    \/ \E d \in SignalData("webrtc-answer") : WebrtcAnswer(TRUE, d)
    \/ \E d \in SignalData("webrtc-ice-candidate") : WebrtcIceCandidate(TRUE, d)
    \/ \E d \in SignalData("end-call") : EndCall(TRUE, d)
    \/ \E ev \in SignalNames : Relay(ev, FALSE, EmptyRec)

MessageNext ==
    \/ \E m \in Messages : NewMessage(TRUE, m)
    \/ NewMessage(FALSE, EmptyRec)

\* the registry alone
Next == RegistryNext(JoinArgs)
Spec == Init /\ [][Next]_vars

\* the registry and the call signaling relay
NextSignal == RegistryNext(SignalJoinArgs) \/ SignalNext
SpecSignal == Init /\ [][NextSignal]_vars

\* the registry and the chat message fan-out
NextMessage == RegistryNext(Chats) \/ MessageNext
SpecMessage == Init /\ [][NextMessage]_vars

\* the registry, with sessions that join the room named by another session's id
NextPresence == RegistryNext(PresenceJoinArgs)
SpecPresence == Init /\ [][NextPresence]_vars

\* every handler of the connection, on a selection of the payloads above
AllSignalData(ev) == { d \in SignalData(ev) : Has(d, "from") /\ Get(d, "from") = "u1" }
AllMessages ==
    { m \in Messages :
        NoUsers(m) \/ m.chat.users \in { <<>>, <<[_id |-> "u2"]>>, <<[name |-> "n"]>>,
                                         <<[_id |-> "u1"], [_id |-> "u2"]>>,
                                         <<[_id |-> "u2"], [_id |-> "u2"]>> } }
NextAll ==
    \/ RegistryNext(SignalJoinArgs)
    \/ \E ev \in SignalNames : \E d \in AllSignalData(ev) : Relay(ev, TRUE, d)
    \/ \E ev \in SignalNames : Relay(ev, FALSE, EmptyRec)
    \/ \E m \in AllMessages : NewMessage(TRUE, m)
    \/ NewMessage(FALSE, EmptyRec)
SpecAll == Init /\ [][NextAll]_vars

----------------------------------------------------------------------------
(* The browser client: SocketProvider, ChatsPage and CallModal *)

\* most calls started in one run
MaxCalls == 2

\* the user each tab is logged in as
UserOf(s) == IF s = "s1" THEN "u1" ELSE IF s = "s2" THEN "u2" ELSE "u3"

\* the tabs of a run with two users
PairTabs == {"s1", "s2"}

\* GET /api/chats: the users of each chat
ChatUsers(c) == IF c = "c1" THEN {"u1", "u2"} ELSE {"u1", "u3"}

With(r, upd) == [f \in DOMAIN r |-> IF f \in DOMAIN upd THEN upd[f] ELSE r[f]]

Msg(ev, data) == [ev |-> ev, data |-> data]

\* {to: x}: a property whose value is undefined is not transmitted
To(x) == IF x \in {NONE, UNDEF} THEN EmptyRec ELSE [to |-> x]

\* callee?._id || caller?._id
Peer(r) == IF r.callee # NONE THEN r.callee ELSE r.caller

\* what a modal instance has emitted and what its listeners have handled
Sent(ev) == <<"sent", ev>>
Got(ev) == <<"got", ev>>

\* variant: the modal of a caller starts the call as soon as it mounts
MountStart(r, peer, inc, h) ==
    With(r, [modal |-> TRUE, incoming |-> inc, inCall |-> FALSE, media |-> FALSE,
             offer |-> FALSE, ice |-> FALSE, mpeer |-> peer,
             timer |-> IF inc THEN NONE ELSE peer, once |-> NONE,
             prep |-> r.prep + 1, consent |-> FALSE, hist |-> h])

\* CallModal mounts: fresh component state, one more prepare-call listener
Mount(r, peer, inc, h) ==
    With(r, [modal |-> TRUE, incoming |-> inc, inCall |-> FALSE, media |-> FALSE,
             offer |-> FALSE, ice |-> FALSE, mpeer |-> peer, timer |-> NONE, once |-> NONE,
             prep |-> r.prep + 1, consent |-> FALSE, hist |-> h])

\* closeCall, and CallModal unmounts: its listeners are removed and its peer
\* connection is cleared, so a pending startCall or ready-for-offer
\* listener of it can emit nothing any more; the prepare-call listeners stay
CloseCall(r) ==
    With(r, [modal |-> FALSE, caller |-> NONE, callee |-> NONE, accepted |-> FALSE,
             incoming |-> FALSE, inCall |-> FALSE, media |-> FALSE, offer |-> FALSE,
             ice |-> FALSE, mpeer |-> NONE, timer |-> NONE, once |-> NONE,
             consent |-> FALSE, hist |-> {}])

Quiet(r) == [ui |-> r, emit |-> <<>>]

\* handleIncomingCall; an open modal stays mounted and gets a new peer
\* connection
HandleIncomingCall(r, data) ==
    LET r1 == With(r, [caller |-> Get(data, "from"), callee |-> NONE, accepted |-> FALSE])
    IN Quiet(IF r.modal
             THEN With(r1, [offer |-> FALSE, ice |-> FALSE, hist |-> r.hist \cup {Got("incoming-call")}])
             ELSE Mount(r1, Get(data, "from"), TRUE, {Got("incoming-call")}))

\* handleCallAccepted, and the accepted-call effect of CallModal: when
\* callAccepted turns true with a callee set, startCall is scheduled
HandleCallAccepted(r) ==
    Quiet(With(r, [accepted |-> TRUE,
                   timer |-> IF r.modal /\ r.callee # NONE /\ ~r.accepted /\ ~r.inCall
                             THEN r.callee ELSE r.timer,
                   hist |-> IF r.modal THEN r.hist \cup {Got("call-accepted")} ELSE r.hist]))

\* variant: a tab that is told the call ended tells its peer in turn
HandleEndCallEcho(r) ==
    IF ~r.modal THEN Quiet(r)
    ELSE [ui |-> CloseCall(r), emit |-> <<Msg("end-call", To(Peer(r)))>>]

\* handleEndCall
HandleEndCall(r) == Quiet(CloseCall(r))

\* variant: the prepare-call listeners only note the event
HandlePrepareCallSilent(r, data) ==
    [ui |-> IF r.modal /\ r.prep > 0
            THEN With(r, [hist |-> r.hist \cup {Got("prepare-call")}])
            ELSE r,
     emit |-> <<>>]

\* the prepare-call listeners: each one emits ready-for-offer
HandlePrepareCall(r, data) ==
    [ui |-> IF r.modal /\ r.prep > 0
            THEN With(r, [hist |-> r.hist \cup {Got("prepare-call"), Sent("ready-for-offer")}])
            ELSE r,
     emit |-> [i \in 1..r.prep |-> Msg("ready-for-offer", To(Get(data, "from")))]]

\* the ready-for-offer listener armed by startCall
HandleReadyForOffer(r) ==
    IF r.once = NONE THEN Quiet(r)
    ELSE [ui |-> With(r, [once |-> NONE, offer |-> TRUE, ice |-> TRUE,
                          hist |-> r.hist \cup {Got("ready-for-offer"), Sent("webrtc-offer")}]),
          emit |-> <<Msg("webrtc-offer", [to |-> r.once, from |-> r.user, offer |-> "X"])>>]

\* handleOffer, registered while the modal is mounted; ok: the browser
\* grants the media and the peer connection takes the offer
HandleOffer(r, data, ok) ==
    IF ~(r.modal /\ ok) THEN Quiet(r)
    ELSE [ui |-> With(r, [media |-> TRUE, inCall |-> TRUE, offer |-> FALSE, ice |-> TRUE,
                          hist |-> r.hist \cup {Got("webrtc-offer"), Sent("webrtc-answer")}]),
          emit |-> <<Msg("webrtc-answer",
                         Extend(Extend(To(Get(data, "from")), "from", r.user), "answer", "X"))>>]

\* variant: the peer connection takes an answer in any signaling state
HandleAnswerAny(r) ==
    IF ~r.modal THEN Quiet(r)
    ELSE Quiet(With(r, [inCall |-> TRUE, offer |-> FALSE,
                        hist |-> r.hist \cup {Got("webrtc-answer")}]))

\* handleAnswer: the peer connection takes an answer only to its own offer
HandleAnswer(r) ==
    IF ~(r.modal /\ r.offer) THEN Quiet(r)
    ELSE Quiet(With(r, [inCall |-> TRUE, offer |-> FALSE,
                        hist |-> r.hist \cup {Got("webrtc-answer")}]))

\* handlePeerLeave: endCall as the signaling effect captured it
HandlePeerLeave(r) ==
    IF ~r.modal THEN Quiet(r)
    ELSE [ui |-> CloseCall(r), emit |-> <<Msg("end-call", To(r.mpeer))>>]

\* the listeners of the socket; an event without listener is discarded
Handle(r, e, ok) ==
    IF e.ev = "incoming-call" THEN HandleIncomingCall(r, e.data)
    ELSE IF e.ev = "call-accepted" THEN HandleCallAccepted(r)
    ELSE IF e.ev = "end-call" THEN HandleEndCall(r)
    ELSE IF e.ev = "prepare-call" THEN HandlePrepareCall(r, e.data)
    ELSE IF e.ev = "ready-for-offer" THEN HandleReadyForOffer(r)
    ELSE IF e.ev = "webrtc-offer" THEN HandleOffer(r, e.data, ok)
    ELSE IF e.ev = "webrtc-answer" THEN HandleAnswer(r)
    ELSE IF e.ev = "peer-disconnected" THEN HandlePeerLeave(r)
    ELSE Quiet(r)

\* the packets written to a tab by the server step, as the tab will read
\* them; "connected" has no listener
Heard(e) == e.ev # "connected"
Written(q, origin) ==
    LET h == SelectSeq(q, Heard)
    IN [i \in 1..Len(h) |-> [ev |-> h[i].ev, data |-> h[i].data, origin |-> origin]]

\* the server handles the signaling events q that one listener run or one
\* click emitted, in the order emitted
RECURSIVE RelayAll(_, _, _)
RelayAll(o, q, i) ==
    IF i > Len(q) THEN o ELSE RelayAll(SignalOut(o, q[i].ev, q[i].data), q, i + 1)

OnSignals(q) ==
    /\ last' = IF q = <<>> THEN Event(ANY, "none", FALSE, EmptyRec)
               ELSE Event(ANY, q[Len(q)].ev, TRUE, q[Len(q)].data)
    /\ out' = RelayAll(NoOut, q, 1)
    /\ UNCHANGED <<status, rooms, sids, bound, crashed>>

\* what the server step wrote is in flight to the tabs; s has taken the
\* first n events of its inbox
Deliver(s, n) ==
    inbox' = [t \in Sessions |->
                SubSeq(inbox[t], (IF t = s THEN n ELSE 0) + 1, Len(inbox[t]))
                    \o Written(out'[t], ui[s].user)]

\* SocketProvider: io(API_URL) connects
Connect(s, u) ==
    /\ OnConnection(s)
    /\ ui' = [ui EXCEPT ![s] = Tab(u)]
    /\ UNCHANGED store
    /\ did' = Step(s, "connect", "connection", u)
    /\ UNCHANGED <<inbox, calls>>

\* SocketProvider: on "connect" the tab emits setup with its user
OnConnect(s) ==
    /\ Live(s)
    /\ ~ui[s].setup
    /\ OnSetup(s, TRUE, [_id |-> ui[s].user, name |-> "n"])
    /\ ui' = [ui EXCEPT ![s] = With(@, [setup |-> TRUE])]
    /\ Deliver(s, 0)
    /\ UNCHANGED store
    /\ did' = Step(s, "setup", "setup", ui[s].user)
    /\ UNCHANGED calls

\* a tab handles the next event written to it
Receive(s, ok) ==
    /\ Live(s)
    /\ inbox[s] # <<>>
    /\ LET e == Head(inbox[s])
           h == Handle(ui[s], e, ok)
       IN /\ ok \/ e.ev = "webrtc-offer"
          /\ ui' = [ui EXCEPT ![s] = h.ui]
          /\ OnSignals(h.emit)
          /\ UNCHANGED store
          /\ did' = Step(s, "receive", e.ev, e.origin)
    /\ Deliver(s, 1)
    /\ UNCHANGED calls

\* handleChatClick and loadMessages: the chat becomes active and is joined;
\* the call modal covers the page while it is shown
HandleChatClick(s, c) ==
    /\ Live(s)
    /\ ui[s].user \in ChatUsers(c)
    /\ ~ui[s].modal
    /\ ui[s].chat # c
    /\ OnJoinChat(s, TRUE, c)
    /\ ui' = [ui EXCEPT ![s] = With(@, [chat |-> c])]
    /\ Deliver(s, 0)
    /\ UNCHANGED store
    /\ did' = Step(s, "open", c, ui[s].user)
    /\ UNCHANGED calls

\* initiateCall
InitiateCall(s) ==
    /\ Live(s)
    /\ ui[s].chat # NONE
    /\ ~ui[s].modal
    /\ calls < MaxCalls
    /\ LET r == ui[s]
           other == CHOOSE u \in ChatUsers(r.chat) : u # r.user
       IN /\ ui' = [ui EXCEPT ![s] =
                        Mount(With(r, [callee |-> other, accepted |-> FALSE]),
                              other, FALSE, {Sent("call-user")})]
          /\ OnSignals(<<Msg("call-user", [to |-> other, from |-> r.user,
                                           name |-> "n", callType |-> "video"])>>)
    /\ Deliver(s, 0)
    /\ calls' = calls + 1
    /\ UNCHANGED store
    /\ did' = Step(s, "call", "call-user", ui[s].user)

\* acceptCall: the Accept button is shown while incoming is true
AcceptCall(s) ==
    /\ Live(s)
    /\ ui[s].modal
    /\ ui[s].incoming
    /\ ui' = [ui EXCEPT ![s] = With(@, [incoming |-> FALSE, consent |-> TRUE,
                                        hist |-> @.hist \cup {Sent("call-accepted")}])]
    /\ OnSignals(<<Msg("call-accepted", Extend(To(ui[s].caller), "from", ui[s].user))>>)
    /\ Deliver(s, 0)
    /\ UNCHANGED store
    /\ did' = Step(s, "accept", "call-accepted", ui[s].user)
    /\ UNCHANGED calls

\* endCall from the Decline or End button
EndCallClick(s) ==
    /\ Live(s)
    /\ ui[s].modal
    /\ ui' = [ui EXCEPT ![s] = CloseCall(@)]
    /\ OnSignals(<<Msg("end-call", To(Peer(ui[s])))>>)
    /\ Deliver(s, 0)
    /\ UNCHANGED store
    /\ did' = Step(s, "hangup", "end-call", ui[s].user)
    /\ UNCHANGED calls

\* startCall, run by the timer of the accepted-call effect; ok: the browser
\* grants the media
StartCall(s, ok) ==
    /\ Live(s)
    /\ ui[s].timer # NONE
    /\ IF ok
       THEN /\ ui' = [ui EXCEPT ![s] = With(@, [timer |-> NONE, media |-> TRUE, once |-> @.timer,
                                                hist |-> @.hist \cup {Sent("prepare-call")}])]
            /\ OnSignals(<<Msg("prepare-call", [to |-> ui[s].timer, from |-> ui[s].user])>>)
       ELSE /\ ui' = [ui EXCEPT ![s] = With(@, [timer |-> NONE])]
            /\ OnSignals(<<>>)
    /\ Deliver(s, 0)
    /\ UNCHANGED store
    /\ did' = Step(s, "timer", "prepare-call", ui[s].user)
    /\ UNCHANGED calls

\* pc.onicecandidate
OnIceCandidate(s) ==
    /\ Live(s)
    /\ ui[s].modal
    /\ ui[s].ice
    /\ ui' = [ui EXCEPT ![s] = With(@, [ice |-> FALSE])]
    /\ OnSignals(<<Msg("webrtc-ice-candidate",
                       Extend(Extend(To(Peer(ui[s])), "from", ui[s].user), "candidate", "X"))>>)
    /\ Deliver(s, 0)
    /\ UNCHANGED store
    /\ did' = Step(s, "ice", "webrtc-ice-candidate", ui[s].user)
    /\ UNCHANGED calls

\* the tab loses its transport and is gone; what was in flight to it is lost
\* with it
Lost(s) ==
    /\ OnDisconnecting(s)
    /\ Deliver(s, Len(inbox[s]))
    /\ UNCHANGED store
    /\ did' = Step(s, "lost", "disconnect", ui[s].user)
    /\ ui' = [ui EXCEPT ![s] = NoTab]
    /\ UNCHANGED calls

\* what the tabs in the set do, but for candidates and transport loss
CallNext(tabs) ==
    \/ \E s \in tabs : Connect(s, UserOf(s))
    \/ \E s \in Sessions : OnConnect(s)
    \/ \E s \in Sessions : \E ok \in BOOLEAN : Receive(s, ok)
    \/ \E s \in Sessions : \E c \in Dialogs : HandleChatClick(s, c)
    \/ \E s \in Sessions : InitiateCall(s)
    \/ \E s \in Sessions : AcceptCall(s)
    \/ \E s \in Sessions : EndCallClick(s)
    \/ \E s \in Sessions : \E ok \in BOOLEAN : StartCall(s, ok)

\* the relay with two tabs of the shipped front end, one per user
NextPair ==
    \/ CallNext(PairTabs)
    \/ \E s \in Sessions : OnIceCandidate(s)
    \/ \E s \in Sessions : Lost(s)
SpecPair == Init /\ [][NextPair]_vars

\* the relay with three tabs of three users that stay connected
NextThird == CallNext(Sessions)
SpecThird == Init /\ [][NextThird]_vars

\* two tabs whose users call and accept but never hang up, whose browsers
\* grant the media and whose transports stay up; every event written to a
\* tab is handled and every timer fires
NextShake ==
    \/ \E s \in PairTabs : Connect(s, UserOf(s))
    \/ \E s \in Sessions : OnConnect(s)
    \/ \E s \in Sessions : Receive(s, TRUE)
    \/ \E s \in Sessions : \E c \in Dialogs : HandleChatClick(s, c)
    \/ \E s \in Sessions : InitiateCall(s)
    \/ \E s \in Sessions : AcceptCall(s)
    \/ \E s \in Sessions : StartCall(s, TRUE)
    \/ \E s \in Sessions : OnIceCandidate(s)
FairShake ==
    \A s \in Sessions : WF_vars(Receive(s, TRUE)) /\ WF_vars(StartCall(s, TRUE))
SpecShake == Init /\ [][NextShake]_vars /\ FairShake

\* two tabs whose users open their common chat, call, accept and hang up,
\* whose browsers grant the media and whose transports stay up; every event
\* written to a tab is handled
NextEnd ==
    \/ \E s \in PairTabs : Connect(s, UserOf(s))
    \/ \E s \in Sessions : OnConnect(s)
    \/ \E s \in Sessions : Receive(s, TRUE)
    \/ \E s \in Sessions : HandleChatClick(s, "c1")
    \/ \E s \in Sessions : InitiateCall(s)
    \/ \E s \in Sessions : AcceptCall(s)
    \/ \E s \in Sessions : EndCallClick(s)
    \/ \E s \in Sessions : StartCall(s, TRUE)
FairEnd == \A s \in Sessions : WF_vars(Receive(s, TRUE))
SpecEnd == Init /\ [][NextEnd]_vars /\ FairEnd

----------------------------------------------------------------------------
(* The REST controller: chatController.js, and its callers in ChatsPage *)

\* requests that arrive in a run
MaxReqs == 3

\* the users the auth middleware puts in req.user
Accounts == {"u1", "u2"}

\* !x for a string property of req.body
Falsy(body, f) == ~Has(body, f) \/ body[f] = ""

\* req.body of POST /api/chats and of POST /api/chats/message
AccessBodies == { [userId |-> u] : u \in Accounts } \cup { EmptyRec }
SendBodies ==
    { [content |-> "hi", chatId |-> "c1"], [content |-> "", chatId |-> "c1"],
      [content |-> "hi"], EmptyRec }

\* a request as the handler sees it: pc is the await it has reached, code
\* the status it answered with (0: not yet), chat and msg the index of the
\* document it found or created (0: none), tab the session of the browser
\* tab that sent it (NONE: another HTTP client)
Req(op, user, body, tab, pc, code) ==
    [op |-> op, user |-> user, body |-> body, tab |-> tab, pc |-> pc, code |-> code,
     chat |-> 0, msg |-> 0]

\* the index of the document with this _id; 0 when there is none
ChatIndex(id) ==
    IF \E k \in DOMAIN chatDb : ChatIds[k] = id
    THEN CHOOSE k \in DOMAIN chatDb : ChatIds[k] = id
    ELSE 0

\* Chat.findOne({isGroupChat: false, users has a, users has b}): the first
\* matching document
Matches(k, a, b) ==
    /\ \E i \in DOMAIN chatDb[k].users : chatDb[k].users[i] = a
    /\ \E i \in DOMAIN chatDb[k].users : chatDb[k].users[i] = b
FindOne(a, b) ==
    IF \E k \in DOMAIN chatDb : Matches(k, a, b)
    THEN CHOOSE k \in DOMAIN chatDb : Matches(k, a, b) /\ \A j \in 1..(k - 1) : ~Matches(j, a, b)
    ELSE 0

\* a step of the controller: no socket event is handled and no tab acts
RestStep(op, user) ==
    /\ ~crashed
    /\ last' = Event(ANY, "none", FALSE, EmptyRec)
    /\ out' = NoOut
    /\ UNCHANGED <<status, rooms, sids, bound, crashed>>
    /\ UNCHANGED <<ui, inbox, calls>>
    /\ did' = Step(NONE, "rest", op, user)

\* accessChat up to its first await: the check of userId
OnAccessChat(user, body, tab) ==
    /\ Len(reqs) < MaxReqs
    /\ reqs' = Append(reqs, IF Falsy(body, "userId")
                            THEN Req("accessChat", user, body, tab, "done", 400)
                            ELSE Req("accessChat", user, body, tab, "find", 0))
    /\ UNCHANGED <<chatDb, msgDb>>

AccessChat(user, body) == OnAccessChat(user, body, NONE) /\ RestStep("accessChat", user)

\* accessChat: Chat.findOne, and the answer 200 when it found a chat
AccessChatFind(i) ==
    /\ reqs[i].op = "accessChat" /\ reqs[i].pc = "find"
    /\ LET k == FindOne(reqs[i].user, reqs[i].body.userId)
       IN reqs' = [reqs EXCEPT ![i] = IF k # 0
                                      THEN [@ EXCEPT !.pc = "done", !.code = 200, !.chat = k]
                                      ELSE [@ EXCEPT !.pc = "create"]]
    /\ UNCHANGED <<chatDb, msgDb>>
    /\ RestStep("accessChat", reqs[i].user)

\* accessChat: Chat.create, Chat.findById and the answer 201
AccessChatCreate(i) ==
    /\ reqs[i].op = "accessChat" /\ reqs[i].pc = "create"
    /\ Len(chatDb) < Len(ChatIds)
    /\ chatDb' = Append(chatDb, [users |-> <<reqs[i].user, reqs[i].body.userId>>,
                                 latestMessage |-> 0])
    /\ reqs' = [reqs EXCEPT ![i] = [@ EXCEPT !.pc = "done", !.code = 201,
                                             !.chat = Len(chatDb) + 1]]
    /\ UNCHANGED msgDb
    /\ RestStep("accessChat", reqs[i].user)

\* sendMessage that checks chatId only
OnSendMessageAnyContent(user, body, tab) ==
    /\ Len(reqs) < MaxReqs
    /\ reqs' = Append(reqs, IF Falsy(body, "chatId")
                            THEN Req("sendMessage", user, body, tab, "done", 400)
                            ELSE Req("sendMessage", user, body, tab, "create", 0))
    /\ UNCHANGED <<chatDb, msgDb>>

\* sendMessage up to its first await: the check of content and chatId
OnSendMessage(user, body, tab) ==
    /\ Len(reqs) < MaxReqs
    /\ reqs' = Append(reqs, IF Falsy(body, "content") \/ Falsy(body, "chatId")
                            THEN Req("sendMessage", user, body, tab, "done", 400)
                            ELSE Req("sendMessage", user, body, tab, "create", 0))
    /\ UNCHANGED <<chatDb, msgDb>>

SendMessage(user, body) == OnSendMessage(user, body, NONE) /\ RestStep("sendMessage", user)

\* sendMessage: Message.create; ok: the store accepts the document
SendMessageCreate(i, ok) ==
    /\ reqs[i].op = "sendMessage" /\ reqs[i].pc = "create"
    /\ IF ok
       THEN /\ msgDb' = Append(msgDb, [sender |-> reqs[i].user, content |-> reqs[i].body.content,
                                       chat |-> reqs[i].body.chatId])
            /\ reqs' = [reqs EXCEPT ![i] = [@ EXCEPT !.pc = "update", !.msg = Len(msgDb) + 1]]
       ELSE /\ reqs' = [reqs EXCEPT ![i] = [@ EXCEPT !.pc = "done", !.code = 400]]
            /\ UNCHANGED msgDb
    /\ UNCHANGED chatDb
    /\ RestStep("sendMessage", reqs[i].user)

\* sendMessage: the populate calls, Chat.findByIdAndUpdate and the answer
\* 201; ok: the store answers
SendMessageUpdate(i, ok) ==
    /\ reqs[i].op = "sendMessage" /\ reqs[i].pc = "update"
    /\ IF ok
       THEN /\ chatDb' = [k \in DOMAIN chatDb |->
                            IF ChatIds[k] = reqs[i].body.chatId
                            THEN [chatDb[k] EXCEPT !.latestMessage = reqs[i].msg]
                            ELSE chatDb[k]]
            /\ reqs' = [reqs EXCEPT ![i] = [@ EXCEPT !.pc = "done", !.code = 201]]
       ELSE /\ reqs' = [reqs EXCEPT ![i] = [@ EXCEPT !.pc = "done", !.code = 400]]
            /\ UNCHANGED chatDb
    /\ UNCHANGED msgDb
    /\ RestStep("sendMessage", reqs[i].user)

\* the controller under requests of any HTTP client
NextRest ==
    \/ \E u \in Accounts : \E b \in AccessBodies : AccessChat(u, b)
    \/ \E i \in DOMAIN reqs : AccessChatFind(i)
    \/ \E i \in DOMAIN reqs : AccessChatCreate(i)
    \/ \E u \in Accounts : \E b \in SendBodies : SendMessage(u, b)
    \/ \E i \in DOMAIN reqs : \E ok \in BOOLEAN : SendMessageCreate(i, ok)
    \/ \E i \in DOMAIN reqs : \E ok \in BOOLEAN : SendMessageUpdate(i, ok)
SpecRest == Init /\ [][NextRest]_vars

\* the _id of the documents of the Message collection, in the order created
MsgIds == <<"m1", "m2", "m3", "m4">>

\* message.populate("chat") and User.populate(message, "chat.users")
Populated(id) ==
    IF ChatIndex(id) = 0 THEN [_id |-> NONE]
    ELSE [_id |-> id,
          users |-> [i \in DOMAIN chatDb[ChatIndex(id)].users |->
                        [_id |-> chatDb[ChatIndex(id)].users[i]]]]

\* res.status(201).json(message) of the request r
Data(r) ==
    [_id |-> MsgIds[r.msg], sender |-> [_id |-> msgDb[r.msg].sender],
     content |-> msgDb[r.msg].content, chat |-> Populated(msgDb[r.msg].chat)]

\* variant: the tab emits "new message" whatever the answer was, with the
\* message as typed when the store refused it
EmitsAlways(r) ==
    IF r.code = 201 THEN <<Data(r)>>
    ELSE <<[_id |-> NONE, sender |-> [_id |-> r.user], content |-> r.body.content,
            chat |-> Populated(r.body.chatId)]>>

\* ChatsPage sendMessage after the await: socket.emit("new message", data)
\* in the try block, nothing in the catch block
Emits(r) == IF r.code = 201 THEN <<Data(r)>> ELSE <<>>

\* the answers to requests of tab s that the tab has not handled yet
Answered(s) == { i \in DOMAIN reqs : reqs[i].tab = s /\ reqs[i].pc = "done" }

\* the tab's continuation has run
Seen(i) == [reqs EXCEPT ![i] = [@ EXCEPT !.pc = "seen"]]

\* openChatWith up to its await: api.post("/api/chats", {userId})
OpenChatWith(s, userId) ==
    /\ Live(s)
    /\ OnAccessChat(ui[s].user, [userId |-> userId], s)
    /\ RestStep("accessChat", ui[s].user)

\* openChatWith after the await: setActiveChat(data) and loadMessages, which
\* emits "join chat"; the catch block only logs
OpenChatWithDone(s, i) ==
    /\ Live(s)
    /\ i \in Answered(s) /\ reqs[i].op = "accessChat"
    /\ IF reqs[i].code = 400
       THEN /\ OnSignals(<<>>)
            /\ UNCHANGED ui
       ELSE /\ OnJoinChat(s, TRUE, ChatIds[reqs[i].chat])
            /\ ui' = [ui EXCEPT ![s] = With(@, [chat |-> ChatIds[reqs[i].chat]])]
    /\ Deliver(s, 0)
    /\ reqs' = Seen(i)
    /\ UNCHANGED <<chatDb, msgDb, calls>>
    /\ did' = Step(s, "opened", "accessChat", ui[s].user)

\* the text of the input box
Texts == {"hi", " "}
Trim(text) == IF text = " " THEN "" ELSE text

\* ChatsPage sendMessage up to its await: api.post("/api/chats/message", ...)
PageSendMessage(s, text) ==
    /\ Live(s)
    /\ Trim(text) # "" /\ ui[s].chat # NONE
    /\ OnSendMessage(ui[s].user, [content |-> text, chatId |-> ui[s].chat], s)
    /\ RestStep("sendMessage", ui[s].user)

\* ChatsPage sendMessage after the await
PageSendMessageDone(s, i) ==
    /\ Live(s)
    /\ i \in Answered(s) /\ reqs[i].op = "sendMessage"
    /\ IF Emits(reqs[i]) = <<>>
       THEN OnSignals(<<>>)
       ELSE OnNewMessage(TRUE, Emits(reqs[i])[1])
    /\ Deliver(s, 0)
    /\ reqs' = Seen(i)
    /\ UNCHANGED <<chatDb, msgDb, ui, calls>>
    /\ did' = Step(s, "sent", "sendMessage", ui[s].user)

\* two tabs that open their chat and send messages through the controller
NextStore ==
    \/ \E s \in PairTabs : Connect(s, UserOf(s))
    \/ \E s \in Sessions : OnConnect(s)
    \/ \E s \in Sessions : Receive(s, TRUE)
    \/ \E s \in Sessions : \E u \in Accounts \ {ui[s].user} : OpenChatWith(s, u)
    \/ \E i \in DOMAIN reqs : AccessChatFind(i)
    \/ \E i \in DOMAIN reqs : AccessChatCreate(i)
    \/ \E s \in Sessions : \E i \in DOMAIN reqs : OpenChatWithDone(s, i)
    \/ \E s \in Sessions : \E text \in Texts : PageSendMessage(s, text)
    \/ \E i \in DOMAIN reqs : \E ok \in BOOLEAN : SendMessageCreate(i, ok)
    \/ \E i \in DOMAIN reqs : \E ok \in BOOLEAN : SendMessageUpdate(i, ok)
    \/ \E s \in Sessions : \E i \in DOMAIN reqs : PageSendMessageDone(s, i)
SpecStore == Init /\ [][NextStore]_vars

----------------------------------------------------------------------------
(* Properties *)

\* live sessions that performed an accepted setup with _id = I
LiveBound(I) == { s \in Sessions : status[s] = "live" /\ I \in bound[s] }

\* sessions the last step wrote at least one event to
Receivers == { s \in Sessions : out[s] # <<>> }

\* the last step handled a signaling event that carried a payload
Targeted == last.ev \in SignalNames /\ last.has /\ ~crashed

ExpectedName == IF last.ev = "call-user" THEN "incoming-call" ELSE last.ev

\* C1: a targeted signaling event with to = B reaches every live session
\* bound to B, each exactly once, under the mapped event name.
C1_MultiDevice ==
    (Targeted /\ Has(last.data, "to")) =>
        \A s \in LiveBound(last.data.to) :
            /\ Len(out[s]) = 1
            /\ out[s][1].ev = ExpectedName

C1_Witness ==
    /\ last.ev = "call-user"
    /\ Has(last.data, "to")
    /\ Cardinality(LiveBound(last.data.to)) >= 2
    /\ \A s \in LiveBound(last.data.to) : Len(out[s]) = 1 /\ out[s][1].ev = "incoming-call"

WellFormed(m) ==
    /\ Has(m, "chat")
    /\ Has(m.chat, "users")
    /\ Has(m, "sender")
    /\ Has(m.sender, "_id")
    /\ \A i \in DOMAIN m.chat.users : Has(m.chat.users[i], "_id")

\* C2: "message received" with the envelope unchanged reaches exactly the
\* live sessions bound to the identities of the user list other than the
\* sender, each exactly once, and no session bound to the sender.
C2_SelfExclusion ==
    (last.ev = "new message" /\ last.has /\ ~crashed /\ WellFormed(last.data)) =>
        LET A == last.data.sender._id
            U == { last.data.chat.users[i]._id : i \in DOMAIN last.data.chat.users } \ {A}
            R == UNION { LiveBound(I) : I \in U }
        IN /\ \A s \in Sessions :
                out[s] = IF s \in R
                         THEN <<[ev |-> "message received", data |-> last.data]>>
                         ELSE <<>>
           /\ \A s \in LiveBound(A) : out[s] = <<>>

\* C3: the sessions that receive an event targeted at identity I are exactly
\* the live sessions that performed setup with _id = I.
C3_ExactLookup ==
    (Targeted /\ Has(last.data, "to") /\ Get(last.data, "to") \in Identities) =>
        Receivers = LiveBound(last.data.to)

\* C4: a targeted event whose to identity has no live session is delivered to
\* nobody, leaves the registry unchanged and is not queued: a later setup
\* yields nothing but "connected".
C4_Dropped ==
    /\ []((Targeted /\ Has(last.data, "to") /\ LiveBound(Get(last.data, "to")) = {}) => out = NoOut)
    /\ [][(last'.ev \in SignalNames) =>
            (rooms' = rooms /\ sids' = sids /\ bound' = bound /\ status' = status)]_vars
    /\ [](last.ev = "setup" =>
            \A s \in Sessions : \A i \in DOMAIN out[s] : out[s][i].ev = "connected")

Webrtc == {"webrtc-offer", "webrtc-answer", "webrtc-ice-candidate"}

\* C5: for the webrtc-* events every session of to receives the payload that
\* was sent (body and from included), and no delivery carries anything else.
C5_Opaque ==
    (last.ev \in Webrtc /\ Targeted) =>
        /\ \A s \in Sessions : \A i \in DOMAIN out[s] :
                out[s][i] = [ev |-> last.ev, data |-> last.data]
        /\ Has(last.data, "to") =>
                \A s \in LiveBound(last.data.to) : out[s] = <<[ev |-> last.ev, data |-> last.data]>>

C5_Witness ==
    /\ last.ev = "webrtc-answer"
    /\ last.data = [to |-> "u1", from |-> "u2", answer |-> "X"]
    /\ \E s \in LiveBound("u1") : out[s] = <<[ev |-> "webrtc-answer", data |-> last.data]>>

\* C6: S is a member of R iff R is a room of S; after join chat both hold the
\* pair; an evicted session is in no room, has no rooms and receives nothing.
C6_Membership ==
    /\ \A s \in Sessions : \A r \in RoomNames : (s \in Members(r)) <=> (r \in sids[s])
    /\ last.ev = "join chat" =>
            LET R == IF last.has THEN last.data.roomId ELSE UNDEF
            IN last.s \in Members(R) /\ R \in sids[last.s]
    /\ \A s \in Sessions : status[s] = "gone" =>
            /\ sids[s] = {}
            /\ \A r \in RoomNames : s \notin Members(r)
            /\ out[s] = <<>>

C6_Witness ==
    /\ \E s \in Sessions : status[s] = "gone"
    /\ \E s \in Sessions : status[s] = "live" /\ "u2" \in sids[s] /\ UNDEF \in sids[s]
    /\ last.ev = "call-user"
    /\ Receivers # {}

\* C7: when a session is lost, every remaining member of one of its rooms
\* receives exactly one peer-disconnected, every other session none.
C7_ExactlyOne ==
    last.ev = "disconnect" =>
        \A t \in Sessions \ {last.s} :
            Len(out[t]) = IF \E r \in last.data.rooms : t \in Members(r) THEN 1 ELSE 0

SetupAccepted == last.ev = "setup" /\ last.has /\ Has(last.data, "_id") /\ Get(last.data, "_id") # ""

\* C8: an accepted setup binds the sending session to the identity and emits
\* "connected" to the sending session only.
C8_SetupReply ==
    SetupAccepted =>
        /\ last.data._id \in bound[last.s]
        /\ last.s \in Members(last.data._id)
        /\ out[last.s] = <<[ev |-> "connected", data |-> EmptyRec]>>
        /\ \A t \in Sessions \ {last.s} : out[t] = <<>>

C8_Witness ==
    /\ SetupAccepted
    /\ Cardinality(LiveBound(last.data._id)) >= 2
    /\ out[last.s] # <<>>

\* C9: setup without payload, without _id or with an empty _id changes
\* neither the identity nor the rooms of any session, emits nothing and does
\* not throw.
C9_SetupNoop ==
    [][(last'.ev = "setup" /\ (~last'.has \/ ~Has(last'.data, "_id") \/ last'.data._id = "")) =>
          /\ rooms' = rooms /\ sids' = sids /\ bound' = bound /\ status' = status
          /\ out' = NoOut
          /\ ~crashed']_vars

C9_Witness ==
    /\ last.ev = "setup"
    /\ ~last.has
    /\ bound[last.s] # {}
    /\ Cardinality(sids[last.s]) >= 2
    /\ out = NoOut

Seven == SignalNames \ {"end-call"}

\* C10 as stated: a payload without to or without from is delivered to no
\* session.
C10_Original ==
    (last.ev \in Seven /\ Targeted /\ (~Has(last.data, "to") \/ ~Has(last.data, "from"))) =>
        out = NoOut

\* C10 amended: a payload without to reaches only sessions that are in the
\* room keyed undefined; a payload with to and without from is still relayed
\* to the sessions of to, without a from field; nothing is thrown and only
\* the mapped event is emitted.
C10_MissingFields ==
    (last.ev \in Seven /\ last.has) =>
        /\ ~crashed
        /\ \A s \in Sessions : \A i \in DOMAIN out[s] : out[s][i].ev = ExpectedName
        /\ ~Has(last.data, "to") => \A s \in Receivers : UNDEF \in sids[s]
        /\ (Has(last.data, "to") /\ ~Has(last.data, "from")) =>
                \A s \in LiveBound(last.data.to) :
                    Len(out[s]) = 1 /\ ~Has(out[s][1].data, "from")

C10_Witness ==
    /\ last.ev \in Seven /\ last.has
    /\ ~Has(last.data, "to")
    /\ \E s \in Sessions : status[s] = "live" /\ bound[s] # {} /\ out[s] = <<>>
    /\ \E t \in Sessions : UNDEF \in sids[t] /\ Len(out[t]) = 1

\* C11: a "new message" whose envelope lacks chat, chat.users or sender, or
\* has a user entry without _id, is delivered to nobody and does not stop
\* the relay.
C11_MalformedDropped ==
    (last.ev = "new message" /\ last.has /\ ~WellFormed(last.data)) =>
        /\ out = NoOut
        /\ ~crashed

EmittedNames ==
    {"connected", "message received", "incoming-call", "call-accepted", "prepare-call",
     "ready-for-offer", "webrtc-offer", "webrtc-answer", "webrtc-ice-candidate",
     "end-call", "peer-disconnected"}

\* C12: the relay emits only the eleven protocol events, and a session gets
\* something out of an event only as the "connected" reply to its own setup
\* or as a member of a room the event addresses; the session that is lost
\* gets nothing.
C12_NoError ==
    /\ \A s \in Sessions : \A i \in DOMAIN out[s] : out[s][i].ev \in EmittedNames
    /\ \A s \in Receivers :
        \/ /\ last.ev = "setup"
           /\ s = last.s
           /\ out[s] = <<[ev |-> "connected", data |-> EmptyRec]>>
        \/ /\ last.ev \in SignalNames
           /\ s \in Members(Get(last.data, "to"))
        \/ /\ last.ev = "new message"
           /\ \E i \in DOMAIN last.data.chat.users :
                s \in Members(Get(last.data.chat.users[i], "_id"))
        \/ /\ last.ev = "disconnect"
           /\ s # last.s

C12_Witness ==
    /\ last.ev = "new message"
    /\ Receivers # {}
    /\ \E s \in Sessions : status[s] = "live" /\ bound[s] # {} /\ s \notin Receivers

\* number of entries of the user list whose room holds s and whose _id is
\* not the sender's
Hits(m, s) ==
    Cardinality({ i \in DOMAIN m.chat.users :
                    /\ Get(m.chat.users[i], "_id") # Get(m.sender, "_id")
                    /\ s \in Members(Get(m.chat.users[i], "_id")) })

Fanned == last.ev = "new message" /\ last.has /\ ~crashed /\ Has(last.data, "chat")
          /\ Has(last.data.chat, "users") /\ last.data.chat.users # <<>>

\* C13 as stated: the members of the message's chat room, except the
\* sessions of the sender identity, are the sessions that receive "message
\* received".
C13_ByChatRoom ==
    (Fanned /\ WellFormed(last.data)) =>
        Receivers = Members(last.data.chat._id) \ LiveBound(last.data.sender._id)

\* C13 amended: the message goes to the rooms named by the _id of the user
\* entries other than the sender's, once per entry; membership of the chat
\* room plays no part.
C13_ByUserRooms ==
    Fanned =>
        \A s \in Sessions :
            /\ Len(out[s]) = Hits(last.data, s)
            /\ \A i \in DOMAIN out[s] :
                    out[s][i] = [ev |-> "message received", data |-> last.data]

C13_Witness ==
    /\ Fanned
    /\ \E s \in Sessions : s \in Members(last.data.chat._id) /\ bound[s] = {} /\ out[s] = <<>>
    /\ \E t \in Sessions : t \notin Members(last.data.chat._id) /\ Len(out[t]) = 1

\* C14: a session is the recipient of events targeted at no more than one
\* identity it has set up.
C14_OneIdentity ==
    \A s \in Sessions :
        Cardinality({ I \in Identities : I \in bound[s] /\ s \in Members(I) }) <= 1

\* C15: join chat with a room the session is already in changes neither the
\* registry nor the membership index, and an event addressed to a room
\* reaches each of its members exactly once.
C15_JoinIdempotent ==
    /\ [][(/\ last'.ev = "join chat"
           /\ (IF last'.has THEN last'.data.roomId ELSE UNDEF) \in sids[last'.s]) =>
            (rooms' = rooms /\ sids' = sids /\ bound' = bound /\ status' = status)]_vars
    /\ [](Targeted => \A s \in Members(Get(last.data, "to")) : Len(out[s]) = 1)

C15_Witness ==
    /\ last.ev = "join chat"
    /\ last.has
    /\ last.data.roomId \in bound[last.s]
    /\ last.data.roomId \in sids[last.s]

\* C16: on loss of S, peer-disconnected with socketId = S goes once for each
\* room of S other than the room named S to the remaining members of that
\* room, to nobody else, and never to S.
C16_Recipients ==
    last.ev = "disconnect" =>
        /\ out[last.s] = <<>>
        /\ \A t \in Sessions \ {last.s} :
            /\ Len(out[t]) = Cardinality({ r \in last.data.rooms \ {last.s} : t \in Members(r) })
            /\ \A i \in DOMAIN out[t] :
                    out[t][i] = [ev |-> "peer-disconnected", data |-> [socketId |-> last.s]]

C16_Witness ==
    /\ last.ev = "disconnect"
    /\ \E t \in Sessions : last.s \in sids[t] /\ Len(out[t]) = 1
    /\ Cardinality(last.data.rooms) >= 3

\* C17: the rooms notified on transport loss are the rooms the session was in
\* immediately before its removal, and the removal is part of the same
\* step: the notification is never computed from a cleared membership.
C17_NotifyBeforeEvict ==
    [][(last'.ev = "disconnect" /\ status[last'.s] = "live") =>
          /\ last'.data.rooms = sids[last'.s]
          /\ \A t \in Sessions \ {last'.s} :
                Len(out'[t]) = Cardinality({ r \in sids[last'.s] \ {last'.s} : t \in rooms[r] })
          /\ status'[last'.s] = "gone"
          /\ sids'[last'.s] = {}]_vars

C17_Witness ==
    /\ last.ev = "disconnect"
    /\ sids[last.s] = {}
    /\ {"u1", "c1"} \subseteq last.data.rooms
    /\ \E t \in Sessions : Len(out[t]) = 2

\* C18: whatever the order in which handlers of different sessions run, a
\* handler writes only to sessions that were connected when it started, and
\* its whole fan-out follows the membership as it was at that moment.
C18_Atomic ==
    /\ [][\A s \in Sessions : out'[s] # <<>> => status[s] = "live"]_vars
    /\ [][Fanned' => \A s \in Sessions : Len(out'[s]) = Hits(last'.data, s)]_vars
    /\ [][Targeted' => Receivers' = Members(Get(last'.data, "to"))]_vars
    /\ [][last'.ev = "disconnect" =>
            \A t \in Sessions \ {last'.s} :
                Len(out'[t]) = Cardinality({ r \in sids[last'.s] \ {last'.s} : t \in rooms[r] })]_vars

C18_Witness ==
    /\ Fanned
    /\ Len(last.data.chat.users) = 2
    /\ \E s \in Sessions : status[s] = "gone"
    /\ \E t \in Sessions : Len(out[t]) = 2

\* C19: whatever was relayed before, the recipients of a signaling event are
\* the members of the room its to field names in the current registry, and
\* end-call reaches every session of to with the payload it came with.
C19_Stateless ==
    Targeted =>
        /\ Receivers = Members(Get(last.data, "to"))
        /\ (last.ev = "end-call" /\ Has(last.data, "to")) =>
                \A s \in LiveBound(last.data.to) :
                    out[s] = <<[ev |-> "end-call", data |-> last.data]>>

C19_Witness ==
    /\ last.ev = "end-call"
    /\ Has(last.data, "to")
    /\ Cardinality(LiveBound(last.data.to)) >= 2
    /\ \A s \in LiveBound(last.data.to) : Len(out[s]) = 1 /\ out[s][1].ev = "end-call"

\* C20 as stated: every relayed payload has the fields and values of the
\* payload received.
C20_Verbatim ==
    Targeted =>
        \A s \in Sessions : \A i \in DOMAIN out[s] : out[s][i].data = last.data

\* the fields of an inbound signaling payload that are forwarded
Forwarded ==
    IF last.ev = "call-user" THEN {"from", "name", "callType"}
    ELSE IF last.ev \in {"call-accepted", "prepare-call", "ready-for-offer"} THEN {"from"}
    ELSE DOMAIN last.data

\* C20 amended: the webrtc-* events and end-call are relayed with the
\* payload received; call-user is relayed with its from, name and callType
\* only, call-accepted, prepare-call and ready-for-offer with their from
\* only; every forwarded field keeps its value.
C20_Content ==
    Targeted =>
        \A s \in Sessions : \A i \in DOMAIN out[s] :
            /\ DOMAIN out[s][i].data = DOMAIN last.data \cap Forwarded
            /\ \A f \in DOMAIN out[s][i].data : out[s][i].data[f] = last.data[f]

C20_Witness ==
    /\ last.ev = "call-accepted"
    /\ last.data = [to |-> "u2", from |-> "u1"]
    /\ \E s \in Sessions : out[s] = <<[ev |-> "call-accepted", data |-> [from |-> "u1"]]>>

\* the last step fanned out a well-formed envelope whose user list names its
\* sender, while two or more sessions of the sender are connected
SenderHasTabs ==
    /\ Fanned
    /\ WellFormed(last.data)
    /\ \E i \in DOMAIN last.data.chat.users : last.data.chat.users[i]._id = last.data.sender._id
    /\ Cardinality(LiveBound(last.data.sender._id)) >= 2

\* C27 as stated: when the sender identity has a session besides the one
\* that sent "new message", a session of the sender receives "message
\* received".
C27_OtherTab ==
    SenderHasTabs => \E s \in LiveBound(last.data.sender._id) : out[s] # <<>>

\* C27 amended: the entry of the sender is skipped, so no session of the
\* sender identity receives the message on account of it; a session of the
\* sender receives "message received" only as a member of the room named by
\* another entry of the user list.
C27_SenderSkipped ==
    (Fanned /\ WellFormed(last.data)) =>
        \A s \in LiveBound(last.data.sender._id) :
            /\ Len(out[s]) = Hits(last.data, s)
            /\ (\A i \in DOMAIN last.data.chat.users :
                    s \in Members(last.data.chat.users[i]._id)
                        => last.data.chat.users[i]._id = last.data.sender._id)
                => out[s] = <<>>

C27_Witness ==
    /\ SenderHasTabs
    /\ \A s \in LiveBound(last.data.sender._id) : out[s] = <<>>
    /\ \E t \in Sessions : Len(out[t]) = 1

\* names under which the relay delivers call signaling
RelayedNames ==
    {"incoming-call", "call-accepted", "prepare-call", "ready-for-offer",
     "webrtc-offer", "webrtc-answer", "webrtc-ice-candidate", "end-call"}

\* C21: a signaling event is written to a session only in a step in which
\* the server handled an event of the mapped name emitted by a connected
\* tab; a step that is the loss of a transport writes nothing but
\* peer-disconnected, also when the lost tab was in a call.
C21_NoSynthesis ==
    \A s \in Sessions : \A i \in DOMAIN out[s] :
        /\ out[s][i].ev \in RelayedNames =>
                /\ last.ev \in SignalNames
                /\ last.has
                /\ out[s][i].ev = ExpectedName
                /\ did.act \notin {"lost", "connect", "setup", "open"}
                /\ status[did.s] = "live"
        /\ did.act = "lost" => out[s][i].ev = "peer-disconnected"

C21_Witness ==
    /\ did.act = "lost"
    /\ \E t \in Sessions :
        /\ status[t] = "live"
        /\ ui[t].modal /\ ui[t].inCall
        /\ Peer(ui[t]) = did.origin
        /\ out[t] = <<[ev |-> "peer-disconnected", data |-> [socketId |-> did.s]]>>

\* C22: when a tab that is in a call loses its transport, the tab of the
\* counterpart, itself in that call, is written peer-disconnected.
C22_PeerTold ==
    [][\A s \in Sessions : \A t \in Sessions \ {s} :
          ( /\ did'.act = "lost" /\ did'.s = s
            /\ status[t] = "live"
            /\ ui[s].modal /\ ui[s].inCall /\ Peer(ui[s]) = ui[t].user
            /\ ui[t].modal /\ ui[t].inCall /\ Peer(ui[t]) = ui[s].user )
          => \E i \in DOMAIN out'[t] : out'[t][i].ev = "peer-disconnected"]_vars

\* the modal instance of tab s was mounted by initiateCall
Calling(s) == ui[s].modal /\ Sent("call-user") \in ui[s].hist

\* C23 as stated: on the calling tab the observation of call-accepted, which
\* defines the state listed after PREPARING and NEGOTIATING, never occurs
\* before prepare-call and the offer of the attempt were sent.
C23_AcceptedLast ==
    \A s \in Sessions :
        (Calling(s) /\ Got("call-accepted") \in ui[s].hist)
            => /\ Sent("prepare-call") \in ui[s].hist
               /\ Sent("webrtc-offer") \in ui[s].hist

\* the events of an attempt at the calling tab, in the order of the code
CallerOrder ==
    <<Sent("call-user"), Got("call-accepted"), Sent("prepare-call"),
      Got("ready-for-offer"), Sent("webrtc-offer"), Got("webrtc-answer")>>

\* C23 (amended): at the calling tab the events of an attempt occur in the
\* order call-user sent, call-accepted observed, prepare-call sent,
\* ready-for-offer handled, offer sent, answer applied: none of them has
\* occurred unless every earlier one has; at the called tab ready-for-offer
\* is sent only for a prepare-call and an answer only for an offer.
C23_Order ==
    \A s \in Sessions :
        /\ Calling(s) =>
              \A j \in DOMAIN CallerOrder : \A i \in 1..j :
                  CallerOrder[j] \in ui[s].hist => CallerOrder[i] \in ui[s].hist
        /\ Sent("ready-for-offer") \in ui[s].hist => Got("prepare-call") \in ui[s].hist
        /\ Sent("webrtc-answer") \in ui[s].hist => Got("webrtc-offer") \in ui[s].hist
        /\ ui[s].inCall =>
              \/ Got("webrtc-answer") \in ui[s].hist
              \/ Sent("webrtc-answer") \in ui[s].hist

C23_Witness ==
    \E s \in Sessions :
        /\ Calling(s)
        /\ ui[s].inCall
        /\ \A j \in DOMAIN CallerOrder : CallerOrder[j] \in ui[s].hist

\* C24: a tab emits prepare-call only from the timer of a modal that sent
\* call-user and has since handled call-accepted, and emits webrtc-offer
\* only in the step in which it handles a ready-for-offer that arrived after
\* it sent prepare-call.
C24_AfterAccepted ==
    [][\A s \in Sessions :
          /\ (did'.s = s /\ last'.has /\ last'.ev = "prepare-call")
                => /\ did'.act = "timer"
                   /\ Calling(s)
                   /\ Got("call-accepted") \in ui[s].hist
          /\ (did'.s = s /\ last'.has /\ last'.ev = "webrtc-offer")
                => /\ did'.act = "receive" /\ did'.ev = "ready-for-offer"
                   /\ Calling(s)
                   /\ Got("call-accepted") \in ui[s].hist
                   /\ Sent("prepare-call") \in ui[s].hist
                   /\ ui[s].once # NONE]_vars

C24_Witness ==
    /\ did.act = "receive" /\ did.ev = "ready-for-offer"
    /\ last.has /\ last.ev = "webrtc-offer"
    /\ \E s \in Sessions :
        /\ did.s = s
        /\ Calling(s)
        /\ {Got("call-accepted"), Sent("prepare-call"), Sent("webrtc-offer")} \subseteq ui[s].hist
        /\ \E t \in Sessions \ {s} : \E i \in DOMAIN out[t] : out[t][i].ev = "webrtc-offer"

\* the modal of the tab shows a call that is ringing: an outgoing attempt
\* not yet accepted, or an incoming one not yet answered by the user
Ringing(r) ==
    /\ r.modal
    /\ ~r.inCall
    /\ \/ r.callee # NONE /\ ~r.accepted
       \/ r.callee = NONE /\ r.incoming

\* C25: a tab leaves the ringing state only in a step in which it handles
\* call-accepted or end-call, its user clicks Accept, Decline or End, or
\* its own transport is lost.
C25_RingsOn ==
    [][\A s \in Sessions :
          (Ringing(ui[s]) /\ ~Ringing(ui'[s]))
             => /\ did'.s = s
                /\ \/ did'.act \in {"accept", "hangup", "lost"}
                   \/ did'.act = "receive" /\ did'.ev \in {"call-accepted", "end-call"}]_vars

\* C26: while the modal of a tab shows a call with one identity, the
\* incoming-call of another identity handled by the tab leaves the caller
\* and the callee of that call as they were.
C26_Independent ==
    [][\A s \in Sessions :
          ( /\ did'.s = s /\ did'.act = "receive" /\ did'.ev = "incoming-call"
            /\ ui[s].modal
            /\ did'.origin # Peer(ui[s]) )
          => /\ ui'[s].callee = ui[s].callee
             /\ ui'[s].caller = ui[s].caller]_vars

\* the entries of session s in the registry and the membership index
Entries(s) == <<status[s], sids[s], bound[s], {r \in RoomNames : s \in rooms[r]}>>

\* C28: a step that handles new message or one of the eight signaling
\* events leaves the registry and the membership index as they were; the
\* entries of a connected session change only in a step that handles its
\* setup, its join chat or the loss of its transport, and any other change
\* is the admission of a new session.
C28_Frame ==
    [][/\ last'.ev \in SignalNames \cup {"new message"}
            => <<status, rooms, sids, bound>>' = <<status, rooms, sids, bound>>
       /\ \A s \in Sessions :
            (status[s] = "live" /\ Entries(s)' # Entries(s))
                => last'.ev \in {"setup", "join chat", "disconnect"} /\ last'.s = s
       /\ <<status, rooms, sids, bound>>' # <<status, rooms, sids, bound>>
            => last'.ev \in {"connection", "setup", "join chat", "disconnect"}]_vars

C28_Witness ==
    /\ last.ev \in SignalNames \cup {"new message"}
    /\ last.has
    /\ ~crashed
    /\ \E s \in Sessions :
        /\ out[s] # <<>>
        /\ bound[s] # {}
        /\ Cardinality(sids[s]) >= 2

\* C29: a tab whose modal shows a call it was called for has acquired
\* media, sent an answer or entered the call only if its user clicked
\* Accept in that modal.
C29_Consent ==
    \A s \in Sessions :
        ( /\ ui[s].modal
          /\ Got("incoming-call") \in ui[s].hist
          /\ Sent("call-user") \notin ui[s].hist
          /\ \/ ui[s].media
             \/ ui[s].inCall
             \/ Sent("webrtc-answer") \in ui[s].hist )
        => ui[s].consent

\* C30: when a tab whose modal shows a call handles a call-accepted, an
\* end-call or a webrtc-offer emitted by a user other than the peer of that
\* call, the modal stays open, no startCall is scheduled, the tab does not
\* enter the call and it emits nothing.
C30_PeerOnly ==
    [][\A s \in Sessions :
          ( /\ did'.s = s /\ did'.act = "receive"
            /\ did'.ev \in {"call-accepted", "end-call", "webrtc-offer"}
            /\ ui[s].modal
            /\ did'.origin # Peer(ui[s]) )
          => /\ ui'[s].modal
             /\ ui'[s].timer = ui[s].timer
             /\ ui'[s].inCall = ui[s].inCall
             /\ last'.ev = "none"]_vars

\* C31: a tab whose modal shows a call closes it on peer-disconnected only
\* when the session that left belonged to the peer of that call.
C31_PeerLeft ==
    [][\A s \in Sessions :
          ( /\ did'.s = s /\ did'.act = "receive" /\ did'.ev = "peer-disconnected"
            /\ ui[s].modal
            /\ did'.origin # Peer(ui[s]) )
          => /\ ui'[s].modal
             /\ last'.ev = "none"]_vars

\* C34: whatever calls were opened and closed on the tab before, the
\* prepare-call it is about to handle makes it emit ready-for-offer exactly
\* once, to the from of that prepare-call.
C34_OneReply ==
    \A s \in Sessions :
        (status[s] = "live" /\ inbox[s] # <<>> /\ Head(inbox[s]).ev = "prepare-call")
            => HandlePrepareCall(ui[s], Head(inbox[s]).data).emit
                   = <<Msg("ready-for-offer", [to |-> Head(inbox[s]).data.from])>>

\* C32: with both tabs connected and bound, once a called tab's user clicks
\* Accept the handshake runs to its end and both tabs are in the call.
C32_Handshake ==
    (did.act = "accept" /\ \A s \in PairTabs : ui[s].setup /\ bound[s] # {})
        ~> (\A s \in PairTabs : ui[s].modal /\ ui[s].inCall)

C32_Witness ==
    /\ \A s \in PairTabs : ui[s].modal /\ ui[s].inCall /\ ui[s].setup
    /\ \E s \in PairTabs : ui[s].consent /\ Sent("webrtc-answer") \in ui[s].hist
    /\ \E s \in PairTabs : Calling(s) /\ Got("webrtc-answer") \in ui[s].hist

\* the end-call events written to session s by the last step, and those in
\* flight to it
EndCallsOut(s) == Len(SelectSeq(out[s], LAMBDA e : e.ev = "end-call"))
EndCallsIn(s) == Len(SelectSeq(inbox[s], LAMBDA e : e.ev = "end-call"))

Without(body, f) == ~Has(body, f) \/ body[f] = ""

\* a request the claim speaks of: sendMessage without content or without
\* chatId, accessChat without userId
Rejected(r) ==
    \/ r.op = "sendMessage" /\ (Without(r.body, "content") \/ Without(r.body, "chatId"))
    \/ r.op = "accessChat" /\ Without(r.body, "userId")

\* C38: a sendMessage request without content or without chatId, and an
\* accessChat request without userId, is answered with status 400 in the
\* step it arrives in; that step leaves the Chat and the Message collection
\* as they were (no message, no chat, no latestMessage changes), and the
\* request never finds or creates a document later.
C38_Validation ==
    [][ \A i \in DOMAIN reqs' :
          Rejected(reqs'[i]) =>
            /\ reqs'[i].code = 400 /\ reqs'[i].pc = "done"
            /\ reqs'[i].chat = 0 /\ reqs'[i].msg = 0
            /\ (i \notin DOMAIN reqs => chatDb' = chatDb /\ msgDb' = msgDb) ]_vars

\* both kinds of request were rejected while a chat
\* was in the store, the accessChat one last
C38_Witness ==
    /\ \E i \in DOMAIN reqs : reqs[i].op = "sendMessage" /\ Rejected(reqs[i])
    /\ Len(reqs) = MaxReqs /\ reqs[MaxReqs].op = "accessChat" /\ Rejected(reqs[MaxReqs])
    /\ did.act = "rest" /\ did.ev = "accessChat"
    /\ chatDb # <<>>

\* the two users of a chat document
Pair(k) == { chatDb[k].users[i] : i \in DOMAIN chatDb[k].users }

\* C36: after any interleaving of accessChat requests the Chat collection
\* holds at most one one-to-one chat for any pair of users.
C36_OneChat == \A j, k \in DOMAIN chatDb : j # k => Pair(j) # Pair(k)

\* the messages of the chat with this _id, by index in the Message collection
MessagesOf(id) == { m \in DOMAIN msgDb : msgDb[m].chat = id }

\* the sendMessage requests that passed validation for the chat with this _id
SendsTo(id) ==
    { i \in DOMAIN reqs : reqs[i].op = "sendMessage" /\ ~Rejected(reqs[i])
                             /\ reqs[i].body.chatId = id }

\* C37: once every sendMessage request for a chat has completed (here: each
\* answered 201, the chat's latestMessage set), the chat's latestMessage is
\* the message of that chat that was created last.
C37_Latest ==
    \A k \in DOMAIN chatDb :
        (/\ \A i \in SendsTo(ChatIds[k]) : reqs[i].pc = "done" /\ reqs[i].code = 201
         /\ chatDb[k].latestMessage # 0)
            => \A m \in MessagesOf(ChatIds[k]) : m <= chatDb[k].latestMessage

\* the message is a document of the Message collection
Stored(message) ==
    \E m \in DOMAIN msgDb :
        /\ message._id = MsgIds[m]
        /\ message.sender._id = msgDb[m].sender
        /\ message.content = msgDb[m].content
        /\ message.chat._id = msgDb[m].chat

\* the "message received" packets written by the last step or waiting at a tab
MessagesRelayed ==
    { e \in UNION { { [ev |-> inbox[s][i].ev, data |-> inbox[s][i].data]
                        : i \in DOMAIN inbox[s] } : s \in Sessions }
            \cup UNION { { out[s][i] : i \in DOMAIN out[s] } : s \in Sessions }
        : e.ev = "message received" }

\* C35 (state part): every "message received" packet written to a tab
\* carries a message that exists in the Message collection.
C35_RelayedIsStored == \A e \in MessagesRelayed : Stored(e.data)

\* C35 (step part): the server handles "new message" only in the step in
\* which a tab handles the 201 answer to its sendMessage request, the message
\* being the stored one; a tab that handles a 400 answer emits nothing and
\* nothing is written to any tab.
C35_EmitAfterStore ==
    [][ /\ last'.ev = "new message" =>
              /\ did'.act = "sent"
              /\ \E i \in Answered(did'.s) :
                    /\ reqs[i].op = "sendMessage" /\ reqs[i].code = 201
                    /\ reqs'[i].pc = "seen"
                    /\ last'.data = Data(reqs[i])
                    /\ Stored(last'.data)
        /\ (did'.act = "sent" /\ \E i \in Answered(did'.s) :
                                     reqs'[i].pc = "seen" /\ reqs[i].code = 400)
              => last'.ev = "none" /\ out' = NoOut /\ inbox' = inbox ]_vars

\* C35: persist before relay, both parts
C35_PersistBeforeRelay == []C35_RelayedIsStored /\ C35_EmitAfterStore

\* the peer's tab holds a "message received" of a stored message, and the
\* sender's tab has just handled the 400 answer to another request
C35_Witness ==
    /\ \E i \in DOMAIN inbox["s2"] : inbox["s2"][i].ev = "message received"
                                     /\ inbox["s2"][i].origin = "u1"
    /\ did.act = "sent" /\ did.s = "s1"
    /\ \E i \in DOMAIN reqs : reqs[i].tab = "s1" /\ reqs[i].pc = "seen" /\ reqs[i].code = 400
    /\ last.ev = "none"

====
